---- MODULE Spec2Model ----
(***************************************************************************)
(* ThoughtNet: the knowledge-graph view (GraphView), the link extractor,   *)
(* the graph builder, and the notes of App with their persistence, as a    *)
(* state machine.                                                          *)
(*                                                                         *)
(* Text is a sequence of one-character strings, so that the regular        *)
(* expression of extractLinks and String.toLowerCase are computed, not     *)
(* assumed.  Numbers with one decimal (opacity, stroke width, zoom scale)  *)
(* are kept in tenths.  d3-force, d3-drag and d3-zoom are libraries        *)
(* outside the repository; what the component relies on is modelled at     *)
(* the call that uses it.  The draw order changed by raise() is not        *)
(* tracked.                                                                *)
(***************************************************************************)
EXTENDS Integers, Sequences, FiniteSets, TLC

VARIABLES
    notes,           \* prop: the note set, in iteration order
    dimensions,      \* useState: canvas width and height
    selectedNodeId,  \* useState: the selected node identity, or NoId
    connectionMap,   \* useMemo: identity -> set of neighbour identities
    nodes,           \* the GraphNode data bound to the drawn circles/labels
    links,           \* the GraphLink data bound to the drawn lines
    nodeStyle,       \* per drawn circle: opacity, stroke, stroke-width
    linkStyle,       \* per drawn line: opacity, stroke, stroke-width
    labelStyle,      \* per drawn label: opacity
    alpha,           \* the simulation's temperature (level)
    alphaTarget,     \* the simulation's alpha target (level)
    running,         \* whether the simulation's timer is ticking
    dragSubject,     \* identity of the node of the drag gesture, or NoId
    dragStale,       \* the gesture's subject was replaced by a rebuild
    dragMoved,       \* the pointer moved during the gesture
    clickArmed,      \* identity whose click event follows the release
    zoomK,           \* the zoom transform's scale, in tenths
    storage          \* localStorage: the item obsidian_mvp_notes

vars == <<notes, dimensions, selectedNodeId, connectionMap, nodes, links,
          nodeStyle, linkStyle, labelStyle, alpha, alphaTarget, running,
          dragSubject, dragStale, dragMoved, clickArmed, zoomK, storage>>

----------------------------------------------------------------------------
(* Values *)

\* null / undefined where an identity is expected (both are falsy)
NoId == 0

\* null where a coordinate is expected (fx, fy)
Null == -1

\* note identities: non-empty strings in the program, opaque tokens here
Ids == {1, 2, 3}

EmptyMap == [k \in {} |-> NoId]

\* Map.prototype.set
MapSet(m, k, v) == [x \in (DOMAIN m) \cup {k} |-> IF x = k THEN v ELSE m[x]]

\* Map.prototype.get, with undefined as NoId
MapGet(m, k) == IF k \in DOMAIN m THEN m[k] ELSE NoId

\* a JavaScript truthiness test of an identity or undefined
Truthy(id) == id # NoId

----------------------------------------------------------------------------
(* Text *)

LowerChar(c) ==
    CASE c = "A" -> "a"
      [] c = "B" -> "b"
      [] c = "C" -> "c"
      [] OTHER -> c

\* String.prototype.toLowerCase
toLowerCase(s) == [i \in 1..Len(s) |-> LowerChar(s[i])]

\* mutant of IsLineTerminator: "." matches every character
NoLineTerminator(c) == FALSE

\* the characters "." does not match
IsLineTerminator(c) == c = "\n"

\* "]]" stands at position j of s
ClosesAt(s, j) == j + 1 <= Len(s) /\ s[j] = "]" /\ s[j + 1] = "]"

\* the positions at which the lazy (.*?)\]\] can end, the capture starting at from
CloseCandidates(s, from) ==
    {j \in from..Len(s) :
        /\ ClosesAt(s, j)
        /\ \A k \in from..(j - 1) : ~IsLineTerminator(s[k])}

Min(S) == CHOOSE x \in S : \A y \in S : x <= y

RECURSIVE ScanLinks(_, _)
\* regex.exec from lastIndex i on, until it returns null
ScanLinks(s, i) ==
    IF i + 1 > Len(s) THEN <<>>
    ELSE IF s[i] = "[" /\ s[i + 1] = "[" /\ CloseCandidates(s, i + 2) # {}
         THEN LET j == Min(CloseCandidates(s, i + 2))
              IN  <<SubSeq(s, i + 2, j - 1)>> \o ScanLinks(s, j + 2)
         ELSE ScanLinks(s, i + 1)

extractLinks(content) == ScanLinks(content, 1)

----------------------------------------------------------------------------
(* Graph builder *)

RECURSIVE NewMapFrom(_, _, _)
NewMapFrom(entries, i, m) ==
    IF i > Len(entries) THEN m
    ELSE NewMapFrom(entries, i + 1, MapSet(m, entries[i][1], entries[i][2]))

RECURSIVE NewMapFirstFrom(_, _, _)
NewMapFirstFrom(entries, i, m) ==
    IF i > Len(entries) THEN m
    ELSE NewMapFirstFrom(entries, i + 1,
                         IF entries[i][1] \in DOMAIN m THEN m
                         ELSE MapSet(m, entries[i][1], entries[i][2]))

\* mutant of NewMap: the first entry with a key is kept
NewMapFirstWins(entries) == NewMapFirstFrom(entries, 1, EmptyMap)

\* new Map(entries): a later entry replaces an earlier one with the same key
NewMap(entries) == NewMapFrom(entries, 1, EmptyMap)

TitleEntries(ns) == [i \in 1..Len(ns) |-> <<toLowerCase(ns[i].title), ns[i].id>>]

\* mutant of titleToId: the first note with a title keeps it
titleToIdFirstWins(ns) == NewMapFirstWins(TitleEntries(ns))

\* the resolution index of connectionMap
titleToId(ns) == NewMap(TitleEntries(ns))

\* the resolution index of the D3 effect
titleToIdMap(ns) == NewMap(TitleEntries(ns))

\* mutant of AddConnection: the target's set does not get the source
AddConnectionOneWay(map, s, t) ==
    LET m1 == IF s \in DOMAIN map THEN map ELSE MapSet(map, s, {})
        m2 == IF t \in DOMAIN m1 THEN m1 ELSE MapSet(m1, t, {})
    IN  [m2 EXCEPT ![s] = @ \cup {t}]

AddConnection(map, s, t) ==
    LET m1 == IF s \in DOMAIN map THEN map ELSE MapSet(map, s, {})
        m2 == IF t \in DOMAIN m1 THEN m1 ELSE MapSet(m1, t, {})
        m3 == [m2 EXCEPT ![s] = @ \cup {t}]
    IN  [m3 EXCEPT ![t] = @ \cup {s}]

RECURSIVE ConnectLinks(_, _, _, _, _)
\* links.forEach of one source note, from its k-th reference on
ConnectLinks(map, index, sourceId, refs, k) ==
    IF k > Len(refs) THEN map
    ELSE LET targetId == MapGet(index, toLowerCase(refs[k]))
         IN  ConnectLinks(IF Truthy(targetId)
                              THEN AddConnection(map, sourceId, targetId)
                              ELSE map,
                          index, sourceId, refs, k + 1)

RECURSIVE ConnectNotes(_, _, _, _)
\* notes.forEach, from the i-th note on
ConnectNotes(map, index, ns, i) ==
    IF i > Len(ns) THEN map
    ELSE ConnectNotes(
             ConnectLinks(map, index, ns[i].id, extractLinks(ns[i].content), 1),
             index, ns, i + 1)

\* the useMemo that computes connectionMap from notes
ConnectionMapOf(ns) == ConnectNotes(EmptyMap, titleToId(ns), ns, 1)

RECURSIVE PushLinksUnchecked(_, _, _, _)
\* mutant of PushLinks: an edge is pushed whether or not the title resolved
PushLinksUnchecked(index, sourceId, refs, k) ==
    IF k > Len(refs) THEN <<>>
    ELSE <<[source |-> sourceId, target |-> MapGet(index, toLowerCase(refs[k]))]>>
         \o PushLinksUnchecked(index, sourceId, refs, k + 1)

RECURSIVE PushLinks(_, _, _, _)
\* linkedTitles.forEach of one note, from its k-th reference on
PushLinks(index, sourceId, refs, k) ==
    IF k > Len(refs) THEN <<>>
    ELSE LET targetId == MapGet(index, toLowerCase(refs[k]))
         IN  (IF Truthy(targetId)
                  THEN <<[source |-> sourceId, target |-> targetId]>>
                  ELSE <<>>)
             \o PushLinks(index, sourceId, refs, k + 1)

RECURSIVE LinksFrom(_, _, _)
LinksFrom(index, ns, i) ==
    IF i > Len(ns) THEN <<>>
    ELSE PushLinks(index, ns[i].id, extractLinks(ns[i].content), 1)
         \o LinksFrom(index, ns, i + 1)

RECURSIVE WithoutRepeats(_)
WithoutRepeats(es) ==
    IF es = <<>> THEN <<>>
    ELSE LET rest == WithoutRepeats(SubSeq(es, 1, Len(es) - 1))
             e == es[Len(es)]
         IN  IF \E k \in DOMAIN rest : rest[k] = e THEN rest ELSE Append(rest, e)

\* mutant of BuildLinks: a repeated reference gives one edge
BuildLinksDeduplicated(ns) == WithoutRepeats(LinksFrom(titleToIdMap(ns), ns, 1))

\* the links array of the D3 effect
BuildLinks(ns) == LinksFrom(titleToIdMap(ns), ns, 1)

Group(folder) ==
    IF folder = "Inbox" THEN 1 ELSE IF folder = "Projects" THEN 2 ELSE 3

----------------------------------------------------------------------------
(* Bounds and configuration *)

\* at most this many notes in a note set of the builder's universe
MaxNotes == 2

\* pointer and force positions lie on the diagonal points 1..MaxCoord
MaxCoord == 1

\* the level of alpha = 1, the value a new simulation starts with; level 0
\* is alpha below alphaMin
AlphaStart == 2

\* the level of alphaTarget(0.3)
AlphaDragTarget == 1

\* opacities, in tenths
BaseOpacity == 10
DimmedOpacity == 1
LinkResetOpacity == 6

\* stroke widths, in tenths
DefaultStrokeWidth == 15
SelectedStrokeWidth == 30
AccentStrokeWidth == 25

\* zoom scales, in tenths: d3.zoomIdentity and the scale of the recentring
IdentityScale == 10
RecentreScale == 15

\* scaleExtent([0.1, 4]), in tenths
MinScale == 1
MaxScale == 40

\* the scales a wheel or pinch gesture asks for (k * 2^delta), in tenths;
\* 0 is a scale under one tenth
ZoomRequests == {0, MinScale, IdentityScale, MaxScale, 2 * MaxScale}

Points == {[x |-> c, y |-> c] : c \in 1..MaxCoord}

Dims == {[width |-> 800, height |-> 600], [width |-> 1024, height |-> 768]}

InitialDimensions == [width |-> 800, height |-> 600]

----------------------------------------------------------------------------
(* The drawn graph and its simulation *)

\* d3.forceSimulation(nodes) places a node without x, y by its index alone
InitialPosition(i) == [x |-> i, y |-> 0]

\* the nodes array of the D3 effect, as d3.forceSimulation initialises it
SimulationNodes(ns) ==
    [i \in 1..Len(ns) |->
        [id |-> ns[i].id, title |-> ns[i].title, group |-> Group(ns[i].folder),
         x |-> InitialPosition(i).x, y |-> InitialPosition(i).y,
         fx |-> Null, fy |-> Null]]

DrawnNodeStyle ==
    [opacity |-> BaseOpacity, stroke |-> "#fff", strokeWidth |-> DefaultStrokeWidth]

DrawnLinkStyle ==
    [opacity |-> BaseOpacity, stroke |-> "#4b5563", strokeWidth |-> DefaultStrokeWidth]

DrawnLabelStyle == [opacity |-> BaseOpacity]

\* an svg without children and no simulation
EmptyView ==
    [nodes |-> <<>>, links |-> <<>>, nodeStyle |-> <<>>, linkStyle |-> <<>>,
     labelStyle |-> <<>>, alpha |-> 0, alphaTarget |-> 0, running |-> FALSE]

CurrentView ==
    [nodes |-> nodes, links |-> links, nodeStyle |-> nodeStyle,
     linkStyle |-> linkStyle, labelStyle |-> labelStyle, alpha |-> alpha,
     alphaTarget |-> alphaTarget, running |-> running]

SetView(v) ==
    /\ nodes' = v.nodes
    /\ links' = v.links
    /\ nodeStyle' = v.nodeStyle
    /\ linkStyle' = v.linkStyle
    /\ labelStyle' = v.labelStyle
    /\ alpha' = v.alpha
    /\ alphaTarget' = v.alphaTarget
    /\ running' = v.running

\* the D3 effect with its clean-up: hadCleanup says whether the effect's
\* previous run returned one (it does not when it returns early)
D3Effect(view, hadCleanup, ns) ==
    IF Len(ns) = 0
    THEN [view EXCEPT !.running = IF hadCleanup THEN FALSE ELSE @]
    ELSE LET ls == BuildLinks(ns)
         IN  [nodes |-> SimulationNodes(ns),
              links |-> ls,
              nodeStyle |-> [i \in 1..Len(ns) |-> DrawnNodeStyle],
              linkStyle |-> [i \in 1..Len(ls) |-> DrawnLinkStyle],
              labelStyle |-> [i \in 1..Len(ns) |-> DrawnLabelStyle],
              alpha |-> AlphaStart,
              alphaTarget |-> 0,
              running |-> TRUE]

isConnected(sel, cmap, id) ==
    IF id = sel THEN TRUE
    ELSE IF sel \in DOMAIN cmap THEN id \in cmap[sel] ELSE FALSE

isDirectLink(sel, cmap, d) ==
    \/ (d.source = sel /\ isConnected(sel, cmap, d.target))
    \/ (d.target = sel /\ isConnected(sel, cmap, d.source))

ResetNodeStyle(old) == [old EXCEPT !.opacity = BaseOpacity, !.stroke = "#fff"]

ResetLinkStyle(old) ==
    [opacity |-> LinkResetOpacity, stroke |-> "#4b5563",
     strokeWidth |-> DefaultStrokeWidth]

SelectedNodeStyle(sel, cmap, d) ==
    [opacity |-> IF isConnected(sel, cmap, d.id) THEN BaseOpacity ELSE DimmedOpacity,
     stroke |-> IF d.id = sel THEN "#fff"
                ELSE IF isConnected(sel, cmap, d.id) THEN "#dcddde" ELSE "#fff",
     strokeWidth |-> IF d.id = sel THEN SelectedStrokeWidth ELSE DefaultStrokeWidth]

SelectedLinkStyle(sel, cmap, d) ==
    [opacity |-> IF isDirectLink(sel, cmap, d) THEN BaseOpacity ELSE DimmedOpacity,
     stroke |-> IF isDirectLink(sel, cmap, d) THEN "#7c3aed" ELSE "#4b5563",
     strokeWidth |-> IF isDirectLink(sel, cmap, d) THEN AccentStrokeWidth
                     ELSE DefaultStrokeWidth]

\* the highlight effect, on the elements the svg holds (the end values of its
\* transitions)
HighlightEffect(view, sel, cmap) ==
    IF ~Truthy(sel)
    THEN [view EXCEPT
            !.nodeStyle = [i \in DOMAIN view.nodes |-> ResetNodeStyle(view.nodeStyle[i])],
            !.linkStyle = [i \in DOMAIN view.links |-> ResetLinkStyle(view.linkStyle[i])],
            !.labelStyle = [i \in DOMAIN view.nodes |-> [opacity |-> BaseOpacity]]]
    ELSE [view EXCEPT
            !.nodeStyle = [i \in DOMAIN view.nodes |->
                              SelectedNodeStyle(sel, cmap, view.nodes[i])],
            !.linkStyle = [i \in DOMAIN view.links |->
                              SelectedLinkStyle(sel, cmap, view.links[i])],
            !.labelStyle = [i \in DOMAIN view.nodes |->
                              [opacity |-> IF isConnected(sel, cmap, view.nodes[i].id)
                                           THEN BaseOpacity ELSE DimmedOpacity]]]

----------------------------------------------------------------------------
(* Note sets *)

\* the notes of the graph view's runs: a -> b -> c -> a is a cycle of
\* references (b's in another case); d references nothing and nothing
\* references it
noteA == [id |-> 1, title |-> <<"a">>, folder |-> "Inbox",
          content |-> <<"[", "[", "b", "]", "]">>]
noteB == [id |-> 2, title |-> <<"b">>, folder |-> "Projects",
          content |-> <<"s", "e", "e", " ", "[", "[", "C", "]", "]">>]
noteC == [id |-> 3, title |-> <<"c">>, folder |-> "Notes",
          content |-> <<"[", "[", "a", "]", "]">>]
noteD == [id |-> 3, title |-> <<"d">>, folder |-> "Notes",
          content |-> <<"t", "o", "d", "o">>]

\* the note sets the notes prop takes in the graph view's runs
NoteSets ==
    {<<>>, <<noteA>>, <<noteB>>, <<noteA, noteB>>, <<noteB, noteC>>,
     <<noteA, noteB, noteC>>, <<noteA, noteB, noteD>>}

\* the builder's universe: titles that differ in case only, bodies with two
\* references to one title, a reference in another case, a reference to no
\* title and an unterminated reference
BuildTitles == {<<"a">>, <<"A">>, <<"A", "b">>}

BuildBodies ==
    {<<>>,
     <<"[", "[", "a", "]", "]", "[", "[", "A", "]", "]">>,
     <<"[", "[", "a", "B", "]", "]">>,
     <<"[", "[", "c", "]", "]", "[", "[", "a">>}

\* one folder of each class
FolderOfId(id) == IF id = 1 THEN "Inbox" ELSE IF id = 2 THEN "Projects" ELSE "Archive"

BuildTexts == [title : BuildTitles, content : BuildBodies]

\* the sequences of n distinct identities
IdSeqs(n) == {s \in [1..n -> Ids] : \A i, j \in 1..n : i # j => s[i] # s[j]}

\* every note set of at most MaxNotes notes with distinct identities
BuildNoteSets ==
    UNION {{[i \in 1..n |-> [id |-> ids[i], title |-> t[i].title,
                             content |-> t[i].content,
                             folder |-> FolderOfId(ids[i])]] :
               ids \in IdSeqs(n), t \in [1..n -> BuildTexts]} :
           n \in 0..MaxNotes}

RemoveAt(s, i) == SubSeq(s, 1, i - 1) \o SubSeq(s, i + 1, Len(s))

\* the extractor's universe: bodies made of at most MaxTokens pieces, with
\* delimiters, stray brackets, a text with an upper-case letter and a
\* space, and a line break
MaxTokens == 5

ExtractTokens ==
    {<<"[", "[">>, <<"]", "]">>, <<"A", " ", "b">>, <<"\n">>, <<"[">>, <<"]">>}

RECURSIVE Concat(_)
Concat(ts) == IF ts = <<>> THEN <<>> ELSE Head(ts) \o Concat(Tail(ts))

ExtractBodies ==
    {Concat(ts) : ts \in UNION {[1..n -> ExtractTokens] : n \in 0..MaxTokens}}

\* one note, titled so that the reference [[A b]] resolves to it
ExtractNoteSets ==
    {<<[id |-> 1, title |-> <<"a", " ", "b">>, content |-> body,
        folder |-> "Inbox"]>> : body \in ExtractBodies}

----------------------------------------------------------------------------
(* storageService and the notes of App *)

\* localStorage.getItem of a key that was never set
NoItem == [stored |-> FALSE, value |-> <<>>]

\* JSON.stringify of a note list, whose fields are strings, numbers and
\* arrays of strings: text from which JSON.parse gives an equal list
JSONstringify(ns) == [stored |-> TRUE, value |-> ns]

JSONparse(item) == item.value

\* the item after Storage.saveNotes(ns)
saveNotes(ns) == JSONstringify(ns)

\* the notes App is installed with; App reads and writes their text without
\* computing on it, so it is kept as strings here
DEFAULT_NOTES ==
    <<[id |-> 1, title |-> "Welcome to Obsidian MVP", folder |-> "Inbox",
       content |-> "Try linking to [[Philosophy]] or check out the [[Project Alpha]]."],
      [id |-> 2, title |-> "Philosophy", folder |-> "Notes",
       content |-> "Related: [[Zettelkasten Method]]"],
      [id |-> 3, title |-> "Zettelkasten Method", folder |-> "Notes",
       content |-> "See also: [[Project Alpha]]"],
      [id |-> 4, title |-> "Project Alpha", folder |-> "Projects",
       content |-> "A secret project. Needs research on [[Philosophy]]."]>>

\* Storage.getNotes() on the item: the list returned and the item afterwards
getNotes(item) ==
    IF ~item.stored
    THEN [notes |-> DEFAULT_NOTES, storage |-> JSONstringify(DEFAULT_NOTES)]
    ELSE [notes |-> JSONparse(item), storage |-> item]

\* the effect of App that persists the notes
PersistEffect(item, ns) == IF Len(ns) > 0 THEN saveNotes(ns) ELSE item

----------------------------------------------------------------------------
(* The component *)

\* the first render of GraphView with the note set ns, and its effects
Mount(ns) ==
    LET cmap == ConnectionMapOf(ns)
        v == HighlightEffect(D3Effect(EmptyView, FALSE, ns), NoId, cmap)
    IN  /\ notes = ns
        /\ dimensions = InitialDimensions
        /\ selectedNodeId = NoId
        /\ connectionMap = cmap
        /\ nodes = v.nodes
        /\ links = v.links
        /\ nodeStyle = v.nodeStyle
        /\ linkStyle = v.linkStyle
        /\ labelStyle = v.labelStyle
        /\ alpha = v.alpha
        /\ alphaTarget = v.alphaTarget
        /\ running = v.running
        /\ dragSubject = NoId
        /\ dragStale = FALSE
        /\ dragMoved = FALSE
        /\ clickArmed = NoId
        /\ zoomK = IdentityScale
        /\ storage = saveNotes(ns)

Init == \E ns \in NoteSets : Mount(ns)

InitBuild == \E ns \in BuildNoteSets : Mount(ns)

InitExtract == \E ns \in ExtractNoteSets : Mount(ns)

\* a rebuild removes the circle a gesture in progress started on
StaleAfterEffect(ns) == dragStale \/ (Len(ns) > 0 /\ dragSubject # NoId)

\* App sets its notes, so the notes prop changes: render (useMemo), D3
\* effect, highlight effect, and the effect of App that persists the notes
SetNotes(ns) ==
    /\ clickArmed = NoId
    /\ notes' = ns
    /\ LET cmap == ConnectionMapOf(ns)
       IN  /\ connectionMap' = cmap
           /\ SetView(HighlightEffect(D3Effect(CurrentView, Len(notes) > 0, ns),
                                      selectedNodeId, cmap))
    /\ dragStale' = StaleAfterEffect(ns)
    /\ storage' = PersistEffect(storage, ns)
    /\ UNCHANGED <<dimensions, selectedNodeId, dragSubject, dragMoved,
                   clickArmed, zoomK>>

\* handleResize: setDimensions with a new object; only the D3 effect runs
Resize(d) ==
    /\ clickArmed = NoId
    /\ dimensions' = d
    /\ SetView(D3Effect(CurrentView, Len(notes) > 0, notes))
    /\ dragStale' = StaleAfterEffect(notes)
    /\ UNCHANGED <<notes, selectedNodeId, connectionMap, dragSubject, dragMoved,
                   clickArmed, zoomK, storage>>

\* App renders again and passes a new onNodeClick; only the D3 effect runs
ParentRerender ==
    /\ clickArmed = NoId
    /\ SetView(D3Effect(CurrentView, Len(notes) > 0, notes))
    /\ dragStale' = StaleAfterEffect(notes)
    /\ UNCHANGED <<notes, dimensions, selectedNodeId, connectionMap, dragSubject,
                   dragMoved, clickArmed, zoomK, storage>>

\* setSelectedNodeId(sel): React renders again, and runs the highlight
\* effect, only when the value differs
SelectNode(sel) ==
    /\ selectedNodeId' = sel
    /\ IF sel = selectedNodeId
       THEN UNCHANGED <<nodeStyle, linkStyle, labelStyle, storage>>
       ELSE LET v == HighlightEffect(CurrentView, sel, connectionMap)
            IN  /\ nodeStyle' = v.nodeStyle
                /\ linkStyle' = v.linkStyle
                /\ labelStyle' = v.labelStyle

\* mutant of DragStart: the gesture's start also selects the node
DragStartSelects(n) ==
    /\ clickArmed = NoId
    /\ dragSubject = NoId
    /\ \E i \in DOMAIN nodes : nodes[i].id = n
    /\ alphaTarget' = AlphaDragTarget
    /\ running' = TRUE
    /\ nodes' = [i \in DOMAIN nodes |->
                    IF nodes[i].id = n
                    THEN [nodes[i] EXCEPT !.fx = nodes[i].x, !.fy = nodes[i].y]
                    ELSE nodes[i]]
    /\ dragSubject' = n
    /\ dragStale' = FALSE
    /\ dragMoved' = FALSE
    /\ SelectNode(n)
    /\ UNCHANGED <<notes, dimensions, connectionMap, links, alpha, clickArmed,
                   zoomK, storage>>

\* drag "start" on the circle of node n (one pointer: event.active is 0)
DragStart(n) ==
    /\ clickArmed = NoId
    /\ dragSubject = NoId
    /\ \E i \in DOMAIN nodes : nodes[i].id = n
    /\ alphaTarget' = AlphaDragTarget
    /\ running' = TRUE
    /\ nodes' = [i \in DOMAIN nodes |->
                    IF nodes[i].id = n
                    THEN [nodes[i] EXCEPT !.fx = nodes[i].x, !.fy = nodes[i].y]
                    ELSE nodes[i]]
    /\ dragSubject' = n
    /\ dragStale' = FALSE
    /\ dragMoved' = FALSE
    /\ UNCHANGED <<notes, dimensions, selectedNodeId, connectionMap, links,
                   nodeStyle, linkStyle, labelStyle, alpha, clickArmed, zoomK, storage>>

\* drag "drag": the pointer moves to p; a replaced subject is no longer drawn
DragMove(p) ==
    /\ dragSubject # NoId
    /\ dragMoved' = TRUE
    /\ nodes' = IF dragStale THEN nodes
                ELSE [i \in DOMAIN nodes |->
                         IF nodes[i].id = dragSubject
                         THEN [nodes[i] EXCEPT !.fx = p.x, !.fy = p.y]
                         ELSE nodes[i]]
    /\ UNCHANGED <<notes, dimensions, selectedNodeId, connectionMap, links,
                   nodeStyle, linkStyle, labelStyle, alpha, alphaTarget, running,
                   dragSubject, dragStale, clickArmed, zoomK, storage>>

\* mutant of DragEnd: the override is left on the node
DragEndKeepsOverride ==
    /\ dragSubject # NoId
    /\ alphaTarget' = IF dragStale THEN alphaTarget ELSE 0
    /\ clickArmed' = IF dragMoved \/ dragStale THEN NoId ELSE dragSubject
    /\ dragSubject' = NoId
    /\ dragStale' = FALSE
    /\ dragMoved' = FALSE
    /\ UNCHANGED <<notes, dimensions, selectedNodeId, connectionMap, nodes, links,
                   nodeStyle, linkStyle, labelStyle, alpha, running, zoomK, storage>>

\* drag "end"; a release without movement on a circle still drawn is
\* followed by that circle's click event
DragEnd ==
    /\ dragSubject # NoId
    /\ alphaTarget' = IF dragStale THEN alphaTarget ELSE 0
    /\ nodes' = IF dragStale THEN nodes
                ELSE [i \in DOMAIN nodes |->
                         IF nodes[i].id = dragSubject
                         THEN [nodes[i] EXCEPT !.fx = Null, !.fy = Null]
                         ELSE nodes[i]]
    /\ clickArmed' = IF dragMoved \/ dragStale THEN NoId ELSE dragSubject
    /\ dragSubject' = NoId
    /\ dragStale' = FALSE
    /\ dragMoved' = FALSE
    /\ UNCHANGED <<notes, dimensions, selectedNodeId, connectionMap, links,
                   nodeStyle, linkStyle, labelStyle, alpha, running, zoomK, storage>>

\* mutant of NodeClick: the selection change also reheats the simulation
NodeClickRestarts ==
    /\ clickArmed # NoId
    /\ SelectNode(clickArmed)
    /\ zoomK' = RecentreScale
    /\ clickArmed' = NoId
    /\ alpha' = AlphaStart
    /\ running' = TRUE
    /\ UNCHANGED <<notes, dimensions, connectionMap, nodes, links,
                   alphaTarget, dragSubject, dragStale, dragMoved, storage>>

\* node "click": select the node and recentre the view on it
NodeClick ==
    /\ clickArmed # NoId
    /\ SelectNode(clickArmed)
    /\ zoomK' = RecentreScale
    /\ clickArmed' = NoId
    /\ UNCHANGED <<notes, dimensions, connectionMap, nodes, links, alpha,
                   alphaTarget, running, dragSubject, dragStale, dragMoved, storage>>

\* svg "click" on the background
BackgroundClick ==
    /\ clickArmed = NoId
    /\ dragSubject = NoId
    /\ SelectNode(NoId)
    /\ UNCHANGED <<notes, dimensions, connectionMap, nodes, links, alpha,
                   alphaTarget, running, dragSubject, dragStale, dragMoved,
                   clickArmed, zoomK, storage>>

\* d3-zoom restricts the scale of a gesture to the scale extent
ClampScale(k) == IF k < MinScale THEN MinScale ELSE IF k > MaxScale THEN MaxScale ELSE k

\* mutant of WheelZoom: the requested scale is taken as it is
WheelZoomUnclamped(k) ==
    /\ clickArmed = NoId
    /\ Len(nodes) > 0
    /\ zoomK' = k
    /\ UNCHANGED <<notes, dimensions, selectedNodeId, connectionMap, nodes, links,
                   nodeStyle, linkStyle, labelStyle, alpha, alphaTarget, running,
                   dragSubject, dragStale, dragMoved, clickArmed, storage>>

\* a wheel or pinch gesture on the svg asks for the scale k; the zoom
\* behaviour is on the svg once a graph has been drawn
WheelZoom(k) ==
    /\ clickArmed = NoId
    /\ Len(nodes) > 0
    /\ zoomK' = ClampScale(k)
    /\ UNCHANGED <<notes, dimensions, selectedNodeId, connectionMap, nodes, links,
                   nodeStyle, linkStyle, labelStyle, alpha, alphaTarget, running,
                   dragSubject, dragStale, dragMoved, clickArmed, storage>>

\* alpha moves one level towards alphaTarget
AlphaStep(a, target) ==
    IF a > target THEN a - 1 ELSE IF a < target THEN a + 1 ELSE a

\* one tick of the simulation's timer: a node with an override is put on it,
\* the forces move every other node to some point (or leave it), and the
\* timer stops once alpha is below alphaMin
Tick ==
    /\ clickArmed = NoId
    /\ running
    /\ alpha' = AlphaStep(alpha, alphaTarget)
    /\ running' = (alpha' # 0)
    /\ \E pos \in [DOMAIN nodes -> Points \cup {[x |-> nodes[i].x, y |-> nodes[i].y] :
                                              i \in DOMAIN nodes}] :
          /\ \A i \in DOMAIN nodes :
                IF nodes[i].fx # Null
                THEN pos[i] = [x |-> nodes[i].fx, y |-> nodes[i].fy]
                ELSE pos[i] \in Points \cup {[x |-> nodes[i].x, y |-> nodes[i].y]}
          /\ nodes' = [i \in DOMAIN nodes |->
                          [nodes[i] EXCEPT !.x = pos[i].x, !.y = pos[i].y]]
    /\ UNCHANGED <<notes, dimensions, selectedNodeId, connectionMap, links,
                   nodeStyle, linkStyle, labelStyle, alphaTarget, dragSubject,
                   dragStale, dragMoved, clickArmed, zoomK, storage>>

Next ==
    \/ \E ns \in NoteSets : SetNotes(ns)
    \/ \E d \in Dims : Resize(d)
    \/ ParentRerender
    \/ \E n \in Ids : DragStart(n)
    \/ \E p \in Points : DragMove(p)
    \/ DragEnd
    \/ NodeClick
    \/ BackgroundClick
    \/ Tick

Spec == Init /\ [][Next]_vars

\* the simulation's timer calls the tick handler for as long as it runs, and
\* the browser delivers the click that follows a release
SpecLive == Spec /\ WF_vars(Tick) /\ WF_vars(NodeClick)

----------------------------------------------------------------------------
(* App: the notes and their persistence, with the graph view not mounted *)

\* identities a note can have: those of DEFAULT_NOTES and those that
\* Date.now().toString() gives to new notes
MaxAppIds == 5

AppIds == 1..MaxAppIds

NoteIdsOf(ns) == {ns[i].id : i \in DOMAIN ns}

viewVars == <<dimensions, selectedNodeId, connectionMap, nodes, links, nodeStyle,
              linkStyle, labelStyle, alpha, alphaTarget, running, dragSubject,
              dragStale, dragMoved, clickArmed, zoomK>>

\* the updates the editor passes to handleUpdateNote
EditorUpdates == {[content |-> "edited"]}

\* { ...n, ...updates }
MergeNote(n, updates) ==
    [f \in DOMAIN n |-> IF f \in DOMAIN updates THEN updates[f] ELSE n[f]]

\* the data of an import file: without notes, with an empty list of notes,
\* with a note of a known identity and one of a new identity
ImportFiles ==
    {[folders |-> <<"Inbox">>],
     [notes |-> <<>>],
     [notes |-> <<[id |-> 1, title |-> "Welcome to Obsidian MVP",
                   folder |-> "Inbox", content |-> "edited"],
                  [id |-> MaxAppIds, title |-> "Untitled Note",
                   folder |-> "Inbox", content |-> ""]>>]}

RECURSIVE MergeById(_, _, _)
\* mergedNotesMap.set(n.id, n) for the imported notes from the k-th on: a
\* known identity keeps its place, a new one goes to the end
MergeById(ns, imported, k) ==
    IF k > Len(imported) THEN ns
    ELSE LET n == imported[k]
             merged == IF n.id \in NoteIdsOf(ns)
                       THEN [i \in DOMAIN ns |-> IF ns[i].id = n.id THEN n ELSE ns[i]]
                       ELSE Append(ns, n)
         IN  MergeById(merged, imported, k + 1)

\* App after its first effects in a browser that holds no item: the load
\* effect, then the persist effect; the graph view is not mounted
InitApp ==
    /\ notes = getNotes(NoItem).notes
    /\ storage = PersistEffect(getNotes(NoItem).storage, getNotes(NoItem).notes)
    /\ dimensions = InitialDimensions
    /\ selectedNodeId = NoId
    /\ connectionMap = EmptyMap
    /\ nodes = EmptyView.nodes
    /\ links = EmptyView.links
    /\ nodeStyle = EmptyView.nodeStyle
    /\ linkStyle = EmptyView.linkStyle
    /\ labelStyle = EmptyView.labelStyle
    /\ alpha = EmptyView.alpha
    /\ alphaTarget = EmptyView.alphaTarget
    /\ running = EmptyView.running
    /\ dragSubject = NoId
    /\ dragStale = FALSE
    /\ dragMoved = FALSE
    /\ clickArmed = NoId
    /\ zoomK = IdentityScale

\* setNotes(ns) in App, and the persist effect of the render that follows
AppSetNotes(ns) ==
    /\ notes' = ns
    /\ storage' = PersistEffect(storage, ns)
    /\ UNCHANGED viewVars

handleCreateNote(id) ==
    /\ id \notin NoteIdsOf(notes)
    /\ AppSetNotes(<<[id |-> id, title |-> "Untitled Note", folder |-> "Inbox",
                      content |-> ""]>> \o notes)

handleUpdateNote(id, updates) ==
    AppSetNotes([i \in DOMAIN notes |->
                    IF notes[i].id # id THEN notes[i] ELSE MergeNote(notes[i], updates)])

handleDeleteNote(id) ==
    AppSetNotes(SelectSeq(notes, LAMBDA n : n.id # id))

\* the file's notes are merged into the notes and saved at once; the
\* persist effect follows
handleImportData(data) ==
    IF "notes" \notin DOMAIN data
    THEN UNCHANGED vars
    ELSE LET mergedNotes == MergeById(notes, data.notes, 1)
         IN  /\ notes' = mergedNotes
             /\ storage' = PersistEffect(saveNotes(mergedNotes), mergedNotes)
             /\ UNCHANGED viewVars

\* the page is loaded again: the load effect, then the persist effect
Reload ==
    /\ notes' = getNotes(storage).notes
    /\ storage' = PersistEffect(getNotes(storage).storage, getNotes(storage).notes)
    /\ UNCHANGED viewVars

NextApp ==
    \/ \E id \in AppIds : handleCreateNote(id)
    \/ \E id \in NoteIdsOf(notes), u \in EditorUpdates : handleUpdateNote(id, u)
    \/ \E id \in NoteIdsOf(notes) : handleDeleteNote(id)
    \/ \E data \in ImportFiles : handleImportData(data)
    \/ Reload

SpecApp == InitApp /\ [][NextApp]_vars

\* the view transform: zoom gestures, the clicks that recentre, and the
\* rebuilds, which keep the svg and its transform
NextZoom ==
    \/ \E k \in ZoomRequests : WheelZoom(k)
    \/ \E n \in Ids : DragStart(n)
    \/ DragEnd
    \/ NodeClick
    \/ BackgroundClick
    \/ \E d \in Dims : Resize(d)
    \/ \E ns \in NoteSets : SetNotes(ns)

SpecZoom == Init /\ [][NextZoom]_vars

\* the builder on every note set of its universe: mounted with it, then
\* rebuilt, and rebuilt with a note removed
NextBuild ==
    \/ \E i \in DOMAIN notes : SetNotes(RemoveAt(notes, i))
    \/ ParentRerender

SpecBuild == InitBuild /\ [][NextBuild]_vars

\* the extractor on every body of its universe, in the builds of a note
\* with that body
SpecExtract == InitExtract /\ [][NextBuild]_vars

----------------------------------------------------------------------------
(* The graph builder's claims, under SpecBuild *)

NodeIds == {nodes[i].id : i \in DOMAIN nodes}

FoldedTitles(ns) == {toLowerCase(ns[i].title) : i \in DOMAIN ns}

\* the reference r names the title of some note of ns, case folded
Resolves(ns, r) == toLowerCase(r) \in FoldedTitles(ns)

\* the references of the i-th note that name a title, in order
MatchingRefs(ns, i) ==
    SelectSeq(extractLinks(ns[i].content), LAMBDA r : Resolves(ns, r))

RECURSIVE EdgesBefore(_, _)
\* how many references of the notes before the i-th name a title
EdgesBefore(ns, i) ==
    IF i <= 1 THEN 0 ELSE EdgesBefore(ns, i - 1) + Len(MatchingRefs(ns, i - 1))

\* the identity of the last note of ns whose case-folded title is t
LastWithTitle(ns, t) ==
    LET last == CHOOSE n \in DOMAIN ns :
                    /\ toLowerCase(ns[n].title) = t
                    /\ \A m \in DOMAIN ns : toLowerCase(ns[m].title) = t => m <= n
    IN  ns[last].id

\* the graph on display was built from the current note set
Built == Len(notes) > 0

\* C1: after a graph build every edge's source and target are identities of
\* nodes of the node set, the node set holds exactly one node per note, and a
\* reference whose case-folded text matches no title gives no edge and no
\* placeholder node.
C1_EdgesJoinNodesOfNotes ==
    /\ \A k \in DOMAIN links :
          links[k].source \in NodeIds /\ links[k].target \in NodeIds
    /\ Built =>
          /\ Len(nodes) = Len(notes)
          /\ \A i \in DOMAIN notes : nodes[i].id = notes[i].id
          /\ \A k \in DOMAIN links :
                \E i, n \in DOMAIN notes :
                   /\ notes[i].id = links[k].source
                   /\ notes[n].id = links[k].target
                   /\ \E j \in DOMAIN extractLinks(notes[i].content) :
                         toLowerCase(extractLinks(notes[i].content)[j])
                            = toLowerCase(notes[n].title)
          /\ \A i \in DOMAIN notes :
                MatchingRefs(notes, i) = <<>> =>
                   \A k \in DOMAIN links : links[k].source # notes[i].id

\* a built graph with an edge, one of whose notes holds a reference to no title
C1_Witness ==
    /\ Built
    /\ Len(links) > 0
    /\ \E i \in DOMAIN notes :
          \E j \in DOMAIN extractLinks(notes[i].content) :
             ~Resolves(notes, extractLinks(notes[i].content)[j])

\* C2: the adjacency index is symmetric: if B is in adjacency(A) then A is in
\* adjacency(B), self-references included.
C2_AdjacencySymmetric ==
    \A a \in DOMAIN connectionMap :
       \A b \in connectionMap[a] :
          b \in DOMAIN connectionMap /\ a \in connectionMap[b]

\* a node adjacent to itself and to another node
C2_Witness ==
    \E a \in DOMAIN connectionMap :
       a \in connectionMap[a] /\ \E b \in connectionMap[a] : b # a

\* notes a and b are the claim's pair: a's body references b's title once and
\* nothing else, b's body references nothing
RefersOnce(a, b) ==
    /\ Len(notes) = 2
    /\ a # b
    /\ Len(extractLinks(notes[a].content)) = 1
    /\ toLowerCase(extractLinks(notes[a].content)[1]) = toLowerCase(notes[b].title)
    /\ toLowerCase(notes[a].title) # toLowerCase(notes[b].title)
    /\ extractLinks(notes[b].content) = <<>>

\* C3: the builder emits exactly one edge, from the referencing note to a
\* note with the referenced title, for each reference occurrence that names
\* a title, and no other edge; for A referencing B once and B referencing
\* nothing the edge set is exactly {A->B}, adjacency(A) = {B} and
\* adjacency(B) = {A}.
C3_OneEdgePerResolvedReference ==
    Built =>
       /\ Len(links) = EdgesBefore(notes, Len(notes) + 1)
       /\ \A i \in DOMAIN notes :
             \A j \in DOMAIN MatchingRefs(notes, i) :
                LET e == links[EdgesBefore(notes, i) + j]
                IN  /\ e.source = notes[i].id
                    /\ \E n \in DOMAIN notes :
                          /\ notes[n].id = e.target
                          /\ toLowerCase(notes[n].title)
                                = toLowerCase(MatchingRefs(notes, i)[j])
       /\ \A a, b \in DOMAIN notes :
             RefersOnce(a, b) =>
                /\ links = <<[source |-> notes[a].id, target |-> notes[b].id]>>
                /\ DOMAIN connectionMap = {notes[a].id, notes[b].id}
                /\ connectionMap[notes[a].id] = {notes[b].id}
                /\ connectionMap[notes[b].id] = {notes[a].id}

\* the claim's pair of notes, and a note set with two references to one title
C3_Witness == \E a, b \in DOMAIN notes : RefersOnce(a, b) /\ Len(links) = 1

\* C4: when notes share a case-folded title, every reference to it resolves
\* to the note that comes last in the note set's order, in the edge set and
\* in the adjacency index alike.
C4_LastDuplicateTitleWins ==
    /\ Built =>
          \A i \in DOMAIN notes :
             \A j \in DOMAIN MatchingRefs(notes, i) :
                links[EdgesBefore(notes, i) + j].target
                   = LastWithTitle(notes, toLowerCase(MatchingRefs(notes, i)[j]))
    /\ \A a, b \in Ids :
          (a \in DOMAIN connectionMap /\ b \in connectionMap[a])
             <=> \E i \in DOMAIN notes :
                    \E j \in DOMAIN MatchingRefs(notes, i) :
                       LET t == LastWithTitle(notes,
                                              toLowerCase(MatchingRefs(notes, i)[j]))
                       IN  \/ (notes[i].id = a /\ t = b)
                           \/ (notes[i].id = b /\ t = a)

\* two notes share a case-folded title and an edge points at the later one
C4_Witness ==
    /\ Built
    /\ \E m, n \in DOMAIN notes :
          /\ m < n
          /\ toLowerCase(notes[m].title) = toLowerCase(notes[n].title)
          /\ notes[m].title # notes[n].title
          /\ \E k \in DOMAIN links : links[k].target = notes[n].id
          /\ notes[n].id \in DOMAIN connectionMap

----------------------------------------------------------------------------
(* The graph view's claims, under Spec *)

\* adjacency(s) of the adjacency index
Adjacency(s) == IF s \in DOMAIN connectionMap THEN connectionMap[s] ELSE {}

\* the highlighted set of the selection s
HighlightSet(s) == Adjacency(s) \cup {s}

\* the step appends one note that references no title and whose title no
\* note references, to a note set whose graph is on display
AppendsUnrelatedNote ==
    /\ Built
    /\ Len(notes') = Len(notes) + 1
    /\ SubSeq(notes', 1, Len(notes)) = notes
    /\ \A i \in DOMAIN notes : notes[i].id # notes'[Len(notes')].id
    /\ BuildLinks(notes') = BuildLinks(notes)

\* C5: a rebuild after the note set changed only by a new unrelated note
\* being appended leaves every node that already existed at the position it
\* had right before the rebuild.
C5_PositionsSurviveAppend ==
    [][AppendsUnrelatedNote =>
          \A i \in DOMAIN nodes :
             /\ nodes'[i].id = nodes[i].id
             /\ nodes'[i].x = nodes[i].x
             /\ nodes'[i].y = nodes[i].y]_vars

\* C6: whenever a node s is selected, a node is shown at full opacity if and
\* only if it is s or in adjacency(s); every other node is shown dimmed.
C6_NodesHighlightedIffAdjacent ==
    selectedNodeId # NoId =>
       \A i \in DOMAIN nodes :
          nodeStyle[i].opacity =
             IF nodes[i].id \in HighlightSet(selectedNodeId)
             THEN BaseOpacity ELSE DimmedOpacity

\* C7: whenever a node s is selected, every edge with both endpoints in
\* adjacency(s) \cup {s} is shown at full opacity with the accent colour and
\* width and every other edge is dimmed; so in a 3-cycle, with any node
\* selected, all three edges are highlighted.
C7_EdgesWithinHighlightSetAccented ==
    selectedNodeId # NoId =>
       \A k \in DOMAIN links :
          IF {links[k].source, links[k].target} \subseteq HighlightSet(selectedNodeId)
          THEN linkStyle[k] = [opacity |-> BaseOpacity, stroke |-> "#7c3aed",
                               strokeWidth |-> AccentStrokeWidth]
          ELSE linkStyle[k].opacity = DimmedOpacity

\* C8: clearing the selection after a node was selected leaves every node and
\* every edge with its default styling: node opacity, stroke colour and
\* stroke width, edge opacity, colour and width are those of a graph with
\* nothing selected.
C8_ClearRestoresDefaultStyling ==
    [][(selectedNodeId # NoId /\ selectedNodeId' = NoId) =>
          /\ \A i \in DOMAIN nodes' : nodeStyle'[i] = DrawnNodeStyle
          /\ \A k \in DOMAIN links' :
                /\ linkStyle'[k].stroke = DrawnLinkStyle.stroke
                /\ linkStyle'[k].strokeWidth = DrawnLinkStyle.strokeWidth
                /\ linkStyle'[k].opacity \in {DrawnLinkStyle.opacity, LinkResetOpacity}]_vars

HasOverride(d) == d.fx # Null \/ d.fy # Null

\* the gesture in progress holds a circle that is still drawn
DragLive == dragSubject # NoId /\ ~dragStale

\* a step that starts a drag gesture
DragBegins == dragSubject = NoId /\ dragSubject' # NoId

\* C9: a node carries a fixed-position override only while a drag on it is
\* in progress: drag-start installs one equal to the node's position, the
\* node keeps one while it is dragged, drag-end leaves none; after any
\* drag events and rebuilds no node that is not being dragged has one.
C9_OverrideOnlyWhileDragged ==
    /\ [](\A i \in DOMAIN nodes :
             HasOverride(nodes[i]) => (DragLive /\ dragSubject = nodes[i].id))
    /\ [](DragLive =>
             \E i \in DOMAIN nodes :
                nodes[i].id = dragSubject /\ nodes[i].fx # Null /\ nodes[i].fy # Null)
    /\ [][DragBegins =>
             \A i \in DOMAIN nodes :
                nodes[i].id = dragSubject' =>
                   nodes'[i].fx = nodes[i].x /\ nodes'[i].fy = nodes[i].y]_vars
    /\ [][(dragSubject # NoId /\ dragSubject' = NoId) =>
             \A i \in DOMAIN nodes' : ~HasOverride(nodes'[i])]_vars

\* the graph was rebuilt during a drag: the node with the dragged identity
\* is a new one, without an override; and a dragged node was put on the
\* pointer's position by a tick
C9_Witness ==
    \/ /\ dragSubject # NoId
       /\ dragStale
       /\ \E i \in DOMAIN nodes : nodes[i].id = dragSubject /\ ~HasOverride(nodes[i])
    \/ /\ DragLive
       /\ dragMoved
       /\ \E i \in DOMAIN nodes :
             nodes[i].id = dragSubject /\ nodes[i].x = nodes[i].fx
                /\ nodes[i].x # InitialPosition(i).x

C11_SelectionLeavesSimulation ==
    [][selectedNodeId' # selectedNodeId =>
          /\ nodes' = nodes
          /\ links' = links
          /\ alpha' = alpha
          /\ alphaTarget' = alphaTarget
          /\ running' = running]_vars

\* a node is selected and shown selected in a converged layout whose nodes
\* are off the positions a rebuild gives them
C11_Witness ==
    /\ selectedNodeId # NoId
    /\ alpha = 0
    /\ \E i \in DOMAIN nodes :
          /\ nodes[i].id = selectedNodeId
          /\ nodeStyle[i].strokeWidth = SelectedStrokeWidth
    /\ \E i \in DOMAIN nodes : nodes[i].x # InitialPosition(i).x

\* C12: after any zoom gestures and clicks that recentre, the scale of the
\* view transform is within [0.1, 4]; a gesture that asks for less yields
\* the minimum and one that asks for more yields the maximum.
C12_ZoomScaleWithinExtent ==
    /\ [](MinScale <= zoomK /\ zoomK <= MaxScale)
    /\ [][zoomK' # zoomK =>
             \/ zoomK' = RecentreScale
             \/ \E k \in ZoomRequests :
                   \/ k < MinScale /\ zoomK' = MinScale
                   \/ k > MaxScale /\ zoomK' = MaxScale
                   \/ MinScale <= k /\ k <= MaxScale /\ zoomK' = k]_vars

\* the view is at the largest scale on a graph that a click recentred before
C12_Witness ==
    /\ zoomK = MaxScale
    /\ selectedNodeId # NoId
    /\ Len(nodes) > 0

\* a step that replaces the note set
NotesChange == notes' # notes

\* C13: each perturbation (the note set, and so the node/edge set, changing;
\* a drag starting) leaves the simulation ticking at or towards a high
\* alpha, also when it had converged and paused; and once only ticks
\* happen and no drag is in progress, alpha decays until the simulation is
\* converged and its timer stopped.
C13_PerturbationReheatsThenDecays ==
    /\ [][NotesChange => (running' /\ alpha' = AlphaStart)]_vars
    /\ [][DragBegins =>
             (running' /\ (alpha' >= AlphaDragTarget \/ alphaTarget' >= AlphaDragTarget))]_vars
    /\ (<>[][Tick]_vars /\ []<>(dragSubject = NoId)) => <>[](alpha = 0 /\ ~running)

----------------------------------------------------------------------------
(* The extractor's claim, under SpecExtract *)

OpensAt(s, j) == j + 1 <= Len(s) /\ s[j] = "[" /\ s[j + 1] = "["

\* the pairs <<o, c>> such that "[[" stands at o and the nearest "]]" after
\* it stands at c
Delimited(s) ==
    {p \in (1..Len(s)) \X (1..Len(s)) :
        /\ OpensAt(s, p[1])
        /\ p[1] + 2 <= p[2]
        /\ ClosesAt(s, p[2])
        /\ \A j \in (p[1] + 2)..(p[2] - 1) : ~ClosesAt(s, j)}

\* those whose text is on one line
DelimitedOnOneLine(s) ==
    {p \in Delimited(s) : \A j \in (p[1] + 2)..(p[2] - 1) : s[j] # "\n"}

\* X is the non-overlapping left-to-right reading of the candidates C: no
\* two of X overlap, and a candidate is left out only if its "[[" starts
\* inside an occurrence of X that starts before it
IsReading(C, X) ==
    /\ \A p, q \in X : p # q => (p[2] + 2 <= q[1] \/ q[2] + 2 <= p[1])
    /\ \A p \in C \ X : \E q \in X : q[1] < p[1] /\ p[1] <= q[2] + 1

\* the texts of the occurrences X of s, from left to right
TextsOf(s, X) ==
    LET f == CHOOSE g \in [1..Cardinality(X) -> X] :
                 \A i, j \in 1..Cardinality(X) : i < j => g[i][1] < g[j][1]
    IN  [i \in 1..Cardinality(X) |-> SubSeq(s, f[i][1] + 2, f[i][2] - 1)]

\* C14 as stated: for a body with n well-formed, non-overlapping [[...]]
\* occurrences, extractLinks returns exactly the n texts between the
\* delimiters, from left to right, unchanged and with duplicates; an
\* unterminated "[[" contributes nothing.
C14_OneEntryPerOccurrence ==
    \A i \in DOMAIN notes :
       \A X \in SUBSET Delimited(notes[i].content) :
          IsReading(Delimited(notes[i].content), X) =>
             extractLinks(notes[i].content) = TextsOf(notes[i].content, X)

\* C14, amended: the same for the occurrences whose text is on one line; a
\* "[[" whose nearest "]]" lies beyond a line break contributes nothing, like
\* an unterminated one.
C14_OneEntryPerOccurrenceOnOneLine ==
    \A i \in DOMAIN notes :
       \A X \in SUBSET DelimitedOnOneLine(notes[i].content) :
          IsReading(DelimitedOnOneLine(notes[i].content), X) =>
             extractLinks(notes[i].content) = TextsOf(notes[i].content, X)

\* a body with an occurrence on one line, whose reference resolved to an
\* edge, and with a "[[" closed only after a line break
C14_Witness ==
    /\ Len(notes) = 1
    /\ Len(extractLinks(notes[1].content)) >= 1
    /\ Len(links) >= 1
    /\ Delimited(notes[1].content) # DelimitedOnOneLine(notes[1].content)

----------------------------------------------------------------------------
(* The rebuild's claims, under Spec *)

\* the drawn nodes, the drawn edges and the adjacency index are those of
\* the note set ns
DerivedFrom(ns) ==
    /\ Len(nodes) = Len(ns)
    /\ \A i \in DOMAIN nodes : nodes[i].id = ns[i].id /\ nodes[i].title = ns[i].title
    /\ links = BuildLinks(ns)
    /\ connectionMap = ConnectionMapOf(ns)

\* C15: in every state in which the simulation, an interaction handler or
\* the highlight logic can run, the nodes, the edges and the adjacency index
\* were all derived from one and the same note set.
C15_StructuresFromOneNoteSet == \E ns \in NoteSets : DerivedFrom(ns)

\* a step in which the D3 effect drew the graph again: the note set or the
\* canvas dimensions changed
Rebuilds == notes' # notes \/ dimensions' # dimensions

\* C16: after every rebuild, by a new note set or new canvas dimensions, the
\* styling drawn is the highlight of the current selection and adjacency:
\* with a node still selected, it and its neighbours are shown highlighted
\* and every other node dimmed.
C16_StylingAfterRebuildIsHighlight ==
    [][(Rebuilds /\ selectedNodeId' # NoId) =>
          \A i \in DOMAIN nodes' :
             nodeStyle'[i] = SelectedNodeStyle(selectedNodeId', connectionMap', nodes'[i])]_vars

\* C17: the selection is none or the identity of a node of the current
\* note set, also after the selected note was removed from the note set.
C17_SelectionIsACurrentNote ==
    selectedNodeId # NoId =>
       /\ \E i \in DOMAIN notes : notes[i].id = selectedNodeId
       /\ \E i \in DOMAIN nodes : nodes[i].id = selectedNodeId

\* C18: while the note set is empty, no node and no edge is displayed.
C18_EmptyNoteSetEmptyGraph ==
    Len(notes) = 0 => (nodes = <<>> /\ links = <<>>)

----------------------------------------------------------------------------
(* The two derivations of the graph, under SpecBuild *)

\* C19: for every note set the adjacency index is the undirected closure of
\* the edge set the rebuild computes: B is in adjacency(A) exactly if there
\* is an edge A->B or an edge B->A, however many of them there are.
C19_AdjacencyIsClosureOfEdges ==
    /\ Built => links = BuildLinks(notes)
    /\ \A a, b \in Ids :
          b \in Adjacency(a) <=>
             \E k \in DOMAIN BuildLinks(notes) :
                \/ BuildLinks(notes)[k] = [source |-> a, target |-> b]
                \/ BuildLinks(notes)[k] = [source |-> b, target |-> a]

\* two edges from one note to another note, one neighbour entry each way
C19_Witness ==
    /\ Built
    /\ \E k1, k2 \in DOMAIN links :
          /\ k1 # k2
          /\ links[k1] = links[k2]
          /\ links[k1].source # links[k1].target
          /\ Adjacency(links[k1].source) = {links[k1].target}
          /\ Adjacency(links[k1].target) = {links[k1].source}

----------------------------------------------------------------------------
(* Persistence, under SpecApp *)

\* C20: after any create, update, delete and import operations that follow
\* the initial load, the note list held in storage is the note list in
\* memory, also when the last note was deleted.
C20_StoredNotesAreTheNotes ==
    /\ storage.stored
    /\ JSONparse(storage) = notes

====
